---- MODULE Spec2Model ----
(***************************************************************************)
(* Model of the Merkle tree container of OnioNS-common                     *)
(* (src/src/containers/MerkleTree.cpp): construction of the hash tree     *)
(* from a sorted record list, generation of paths and spans for a queried  *)
(* name, and the verification entry points.                                *)
(*                                                                         *)
(* Names are modelled as integers under <, standing for std::string under  *)
(* operator<.  A SHA-384 digest is modelled as a term: a record's digest   *)
(* is <<d>>, and the digest of the concatenation of two digests is the     *)
(* pair <<l, r>>, i.e. the hash is idealised as collision free.  Its      *)
(* base64 text is the digest tagged "b64".  A Json::Value is a record     *)
(* with its type; nodes are addressed by their index in `nodes`.          *)
(***************************************************************************)
EXTENDS Integers, Sequences, FiniteSets, TLC

\* ------------------------------------------------------------------ bounds
MaxName == 4
MaxRecords == 4
NumDigests == 2

\* Record names are the even numbers, so that between, below and above any
\* two record names there is a name that can be queried.
Names == {2 * k : k \in 1..MaxName}
QueryNames == 1..(2 * MaxName + 1)
Digests == {<<d>> : d \in 1..NumDigests}

\* ------------------------------------------------------------- primitives
\* nullptr for a NodePtr; nodes are addressed by their index in `nodes`.
Null == 0

\* the value of a SHA384_HASH that was never assigned
Uninit == <<>>

\* what a read of memory that holds no element may yield as a digest
GarbageHashes == Digests

\* a Json::Value that was default constructed and never assigned
JsonNull == [type |-> "null"]

\* marks a proof side produced from a pointer read past the end of leaves_
GarbagePath == [type |-> "garbage"]

\* absent member of a Json object
Absent == <<>>

\* the concatenation taken in the wrong order: b's digest before a's
concatenateHashes_swapped(a, b) == <<b.hash, a.hash>>

\* Botan::SHA_384 over the 96 byte concatenation of a's and b's digests
concatenateHashes(a, b) == <<a.hash, b.hash>>

\* Botan::base64_encode of the 48 digest bytes
getBase64Hash(n) == <<"b64", n.hash>>

isLessThan(a, b) == a.name < b.name

\* ------------------------------------------------------------------ state
VARIABLES
  records,   \* the constructor's argument: sequence of [name, hash]
  nodes,     \* every Node/Leaf allocated so far, addressed by index
  leaves_,   \* MerkleTree::leaves_ : sequence of node indices
  rootHash_, \* MerkleTree::rootHash_
  row,       \* buildTree: the current row
  nextRow,   \* buildTree: the row being built
  j,         \* buildTree: loop index of the inner for
  pc,        \* "new", "build", "ready", "crashed"
  queried,   \* the name of the last generateSubtree call (0: none)
  result,    \* what the last generateSubtree call returned
  verdict,   \* the verifySubtree / verifyRoot call that ends a behaviour
  oob        \* TRUE once an element outside a vector's bounds was read

vars == <<records, nodes, leaves_, rootHash_, row, nextRow, j, pc, queried,
          result, verdict, oob>>

NoResult == [type |-> "none"]
NoVerdict ==
  [op |-> "none", proof |-> NoResult, record |-> [name |-> 0, hash |-> <<>>],
   root |-> <<>>, ok |-> FALSE]

\* the elements of a set of integers in ascending order
RECURSIVE SortedSeq(_)
SortedSeq(S) ==
  IF S = {} THEN <<>>
  ELSE LET m == CHOOSE x \in S : \A y \in S : x <= y
       IN <<m>> \o SortedSeq(S \ {m})

\* The record lists handed to the constructor: sorted by name, names unique.
Init ==
  /\ \E S \in SUBSET Names :
       /\ Cardinality(S) <= MaxRecords
       /\ \E d \in [S -> Digests] :
            LET names == SortedSeq(S)
            IN records = [i \in 1..Len(names) |->
                            [name |-> names[i], hash |-> d[names[i]]]]
  /\ nodes = <<>>
  /\ leaves_ = <<>>
  /\ rootHash_ = Uninit
  /\ row = <<>>
  /\ nextRow = <<>>
  /\ j = 0
  /\ pc = "new"
  /\ queried = 0
  /\ result = NoResult
  /\ verdict = NoVerdict
  /\ oob = FALSE

\* ------------------------------------------------------------ construction
\* Leaf::Leaf(record, nullptr)
Leaf(r, parent) ==
  [parent |-> parent, leftChild |-> Null, rightChild |-> Null,
   hash |-> r.hash, name |-> r.name]

\* Node::Node(parent, hash); an inner node carries no name
Node(parent, hash) ==
  [parent |-> parent, leftChild |-> Null, rightChild |-> Null,
   hash |-> hash, name |-> 0]

\* MerkleTree::MerkleTree up to the call of buildTree
MerkleTree ==
  /\ pc = "new"
  /\ nodes' = [i \in 1..Len(records) |-> Leaf(records[i], Null)]
  /\ leaves_' = [i \in 1..Len(records) |-> i]
  /\ row' = [i \in 1..Len(records) |-> i]
  /\ nextRow' = <<>>
  /\ j' = 0
  /\ pc' = "build"
  /\ UNCHANGED <<records, rootHash_, queried, result, verdict, oob>>

\* Node::setChildren
setChildren(ns, n, left, right) ==
  [ns EXCEPT ![n].leftChild = left, ![n].rightChild = right]

\* a setParent that leaves the back link unset
setParent_dropped(ns, n, parent) == ns

\* Node::setParent
setParent(ns, n, parent) == [ns EXCEPT ![n].parent = parent]

\* one iteration of the inner for loop of buildTree
buildTreePair ==
  /\ pc = "build"
  /\ Len(row) > 1
  /\ j < Len(row)
  /\ LET left == row[j + 1]
         hasRight == j + 1 < Len(row)
         right == IF hasRight THEN row[j + 2] ELSE left
         hash == concatenateHashes(nodes[left], nodes[right])
         node == Len(nodes) + 1
         n1 == Append(nodes, Node(Null, hash))
         n2 == setChildren(n1, node, left, IF hasRight THEN right ELSE Null)
         n3 == setParent(n2, left, node)
         n4 == setParent(n3, right, node)
     IN /\ nodes' = n4
        /\ nextRow' = Append(nextRow, node)
  /\ j' = j + 2
  /\ UNCHANGED <<records, leaves_, rootHash_, row, pc, queried, result,
                 verdict, oob>>

\* end of the inner for loop: row = nextRow
buildTreeNextRow ==
  /\ pc = "build"
  /\ Len(row) > 1
  /\ j >= Len(row)
  /\ row' = nextRow
  /\ nextRow' = <<>>
  /\ j' = 0
  /\ UNCHANGED <<records, nodes, leaves_, rootHash_, pc, queried, result,
                 verdict, oob>>

\* return row[0]->getHash() with one element left, assigned to rootHash_
buildTreeReturn ==
  /\ pc = "build"
  /\ Len(row) = 1
  /\ rootHash_' = nodes[row[1]].hash
  /\ pc' = "ready"
  /\ UNCHANGED <<records, nodes, leaves_, row, nextRow, j, queried, result,
                 verdict, oob>>

\* return row[0]->getHash() on an empty row: row[0] is not an element of the
\* vector, so the read either faults or yields whatever the memory holds.
buildTreeReturnEmpty ==
  /\ pc = "build"
  /\ Len(row) = 0
  /\ oob' = TRUE
  /\ \/ /\ pc' = "crashed"
        /\ UNCHANGED rootHash_
     \/ /\ pc' = "ready"
        /\ rootHash_' \in GarbageHashes
  /\ UNCHANGED <<records, nodes, leaves_, row, nextRow, j, queried, result,
                 verdict>>

\* ------------------------------------------------------------------ queries
\* Leaf::Leaf(name): the needle of a search; only its name is initialised
Needle(domain) ==
  [parent |-> Null, leftChild |-> Null, rightChild |-> Null,
   hash |-> Uninit, name |-> domain]

\* std::lower_bound(leaves_.begin(), leaves_.end(), needle, isLessThan):
\* the binary search over [first, first + len), positions counted from 0
RECURSIVE lower_bound(_, _, _)
lower_bound(first, len, needle) ==
  IF len <= 0 THEN first
  ELSE LET half == len \div 2
           mid == first + half
       IN IF isLessThan(nodes[leaves_[mid + 1]], needle)
          THEN lower_bound(mid + 1, len - half - 1, needle)
          ELSE lower_bound(first, half, needle)

\* std::upper_bound(leaves_.begin(), leaves_.end(), needle, isLessThan)
RECURSIVE upper_bound(_, _, _)
upper_bound(first, len, needle) ==
  IF len <= 0 THEN first
  ELSE LET half == len \div 2
           mid == first + half
       IN IF isLessThan(needle, nodes[leaves_[mid + 1]])
          THEN upper_bound(first, half, needle)
          ELSE upper_bound(mid + 1, len - half - 1, needle)

\* Node::asValue: the digests of the children the node stores
asValue(n) ==
  [left |-> IF n.leftChild # Null
            THEN getBase64Hash(nodes[n.leftChild]) ELSE Absent,
   right |-> IF n.rightChild # Null
             THEN getBase64Hash(nodes[n.rightChild]) ELSE Absent]

\* the while (node) loop of generatePath: one value per node visited
RECURSIVE walkUp(_)
walkUp(node) ==
  IF node = Null THEN <<>>
  ELSE <<asValue(nodes[node])>> \o walkUp(nodes[node].parent)

\* MerkleTree::generatePath; a position past the end of leaves_ holds no leaf
generatePath(pos) ==
  IF pos >= Len(leaves_) THEN GarbagePath
  ELSE LET leaf == leaves_[pos + 1]
           leafVal == [name |-> nodes[leaf].name,
                       hash |-> getBase64Hash(nodes[leaf])]
       IN [type |-> "array", items |-> <<leafVal>> \o walkUp(leaf)]

\* MerkleTree::generateSpan
generateSpan(needle, lowerBound) ==
  LET upperBound == upper_bound(0, Len(leaves_), needle)
  IN [type |-> "object",
      left |-> generatePath(lowerBound),
      right |-> generatePath(upperBound)]

\* the found test of generateSubtree
Found(needle, lowerBound) ==
  /\ lowerBound # Len(leaves_)
  /\ ~isLessThan(needle, nodes[leaves_[lowerBound + 1]])

\* MerkleTree::generateSubtree
generateSubtree(domain) ==
  IF Len(leaves_) = 0 THEN JsonNull
  ELSE LET needle == Needle(domain)
           lowerBound == lower_bound(0, Len(leaves_), needle)
       IN IF Found(needle, lowerBound)
          THEN generatePath(lowerBound)
          ELSE generateSpan(needle, lowerBound)

\* whether generateSubtree(domain) dereferences leaves_.end()
ReadsPastEnd(domain) ==
  /\ Len(leaves_) # 0
  /\ LET needle == Needle(domain)
         lowerBound == lower_bound(0, Len(leaves_), needle)
     IN /\ ~Found(needle, lowerBound)
        /\ \/ lowerBound >= Len(leaves_)
           \/ upper_bound(0, Len(leaves_), needle) >= Len(leaves_)

\* a call of generateSubtree that stays inside leaves_.  The tree is not
\* changed by queries or verifications, so a behaviour follows one proof at
\* a time: a verification (verdict) is of the result of the last query.
GenerateSubtree ==
  /\ pc = "ready"
  /\ verdict = NoVerdict
  /\ \E domain \in QueryNames :
       /\ ~ReadsPastEnd(domain)
       /\ queried' = domain
       /\ result' = generateSubtree(domain)
  /\ UNCHANGED <<records, nodes, leaves_, rootHash_, row, nextRow, j, pc,
                 verdict, oob>>

\* a call of generateSubtree that dereferences leaves_.end(): the pointer
\* read there is no leaf, so the call faults or builds its span from garbage
GenerateSubtreePastEnd ==
  /\ pc = "ready"
  /\ verdict = NoVerdict
  /\ \E domain \in QueryNames :
       /\ ReadsPastEnd(domain)
       /\ queried' = domain
       /\ \/ /\ pc' = "crashed"
             /\ result' = NoResult
          \/ /\ pc' = "ready"
             /\ result' = generateSubtree(domain)
  /\ oob' = TRUE
  /\ UNCHANGED <<records, nodes, leaves_, rootHash_, row, nextRow, j,
                 verdict>>

\* ------------------------------------------------------------ verification
\* a verifySubtree that rejects whatever it is given
verifySubtree_rejects(value, record) == FALSE

\* MerkleTree::verifySubtree
verifySubtree(value, record) == TRUE

\* MerkleTree::verifyRoot
verifyRoot(value, root) == TRUE

\* a digest string that is the encoding of no digest of the tree
TamperedHash == <<"b64", <<0>>>>

\* a path with one sibling hash changed
TamperedPaths(p) ==
  IF p.type # "array" THEN {}
  ELSE {[p EXCEPT !.items[k].left = TamperedHash] :
          k \in {i \in 2..Len(p.items) : p.items[i].left # Absent}}
       \cup
       {[p EXCEPT !.items[k].right = TamperedHash] :
          k \in {i \in 2..Len(p.items) : p.items[i].right # Absent}}

\* spans put together from the paths of two leaves that are not neighbours
ForgedSpans ==
  {[type |-> "object", left |-> generatePath(a), right |-> generatePath(b)] :
     <<a, b>> \in {<<x, y>> \in (0..(Len(leaves_) - 1)) \X (0..(Len(leaves_) - 1)) :
                     y > x + 1}}

\* the values a caller may hand to the verification functions: what the
\* query returned, a returned path with a hash changed, or, in place of a
\* returned span, a span of two leaves that are not neighbours
ProofInputs ==
  {result} \cup TamperedPaths(result)
           \cup (IF result.type = "object" THEN ForgedSpans ELSE {})

\* the records a caller may expect under the queried name
ExpectedRecords == {[name |-> queried, hash |-> d] : d \in Digests}

\* the root strings a caller may trust
RootInputs == {<<"b64", rootHash_>>, TamperedHash}

\* a call of verifySubtree
VerifySubtree ==
  /\ pc = "ready"
  /\ result # NoResult
  /\ verdict = NoVerdict
  /\ \E value \in ProofInputs, record \in ExpectedRecords :
       verdict' = [op |-> "verifySubtree", proof |-> value,
                   record |-> record, root |-> Absent,
                   ok |-> verifySubtree(value, record)]
  /\ UNCHANGED <<records, nodes, leaves_, rootHash_, row, nextRow, j, pc,
                 queried, result, oob>>

\* a call of verifyRoot
VerifyRoot ==
  /\ pc = "ready"
  /\ result # NoResult
  /\ verdict = NoVerdict
  /\ \E value \in ProofInputs, root \in RootInputs :
       verdict' = [op |-> "verifyRoot", proof |-> value,
                   record |-> [name |-> 0, hash |-> Absent], root |-> root,
                   ok |-> verifyRoot(value, root)]
  /\ UNCHANGED <<records, nodes, leaves_, rootHash_, row, nextRow, j, pc,
                 queried, result, oob>>

Next ==
  \/ MerkleTree
  \/ buildTreePair
  \/ buildTreeNextRow
  \/ buildTreeReturn
  \/ buildTreeReturnEmpty
  \/ GenerateSubtree
  \/ GenerateSubtreePastEnd
  \/ VerifySubtree
  \/ VerifyRoot

Spec == Init /\ [][Next]_vars

\* ------------------------------------------------------- notions of claims
\* the digest of the concatenation of two digests, as the claims write it
H(l, r) == <<l, r>>

LeafNames == {records[i].name : i \in 1..Len(records)}

\* position (from 0) of the leaf with the given name
IndexOf(name) == CHOOSE i \in 0..(Len(records) - 1) : records[i + 1].name = name

\* a query has been answered on a constructed, non-empty tree
Answered == pc = "ready" /\ result # NoResult /\ Len(records) >= 1

\* number of levels above the leaves of a tree of n leaves
RECURSIVE Levels(_)
Levels(n) == IF n <= 1 THEN 0 ELSE 1 + Levels((n + 1) \div 2)

\* the bottom-up fold of a non-empty row of digests
RECURSIVE ReferenceFold(_)
ReferenceFold(ds) ==
  IF Len(ds) = 1 THEN ds[1]
  ELSE ReferenceFold([i \in 1..((Len(ds) + 1) \div 2) |->
         H(ds[2 * i - 1],
           IF 2 * i <= Len(ds) THEN ds[2 * i] ELSE ds[2 * i - 1])])

RecordDigests == [i \in 1..Len(records) |-> records[i].hash]

\* height of a node above the leaves, following the stored left children
RECURSIVE Height(_)
Height(x) ==
  IF nodes[x].leftChild = Null THEN 0 ELSE 1 + Height(nodes[x].leftChild)

NodeIds == 1..Len(nodes)
Level(h) == {x \in NodeIds : Height(x) = h}
Inner == {x \in NodeIds : x > Len(leaves_)}

\* x is the last node of a level of odd width
LastOfOddLevel(x) ==
  LET lv == Level(Height(x))
  IN Cardinality(lv) % 2 = 1 /\ \A y \in lv : y <= x

\* ------------------------------------------------------------------ claims
\* C1: a verification of an inclusion proof returns false when the expected
\* record digest differs from the leaf's digest or one sibling hash of the
\* proof was changed.
C1_TamperRejected ==
  (/\ Answered
   /\ result.type = "array"
   /\ verdict.op # "none"
   /\ \/ verdict.proof \in TamperedPaths(result)
      \/ /\ verdict.op = "verifySubtree"
         /\ verdict.record.hash # records[IndexOf(queried) + 1].hash)
  => ~verdict.ok

\* C2: for a name that matches no leaf and lies strictly between the
\* smallest and the largest leaf name, the query returns a span whose lower
\* path is that of the nearest leaf below the name and whose upper path is
\* that of the nearest leaf above it.
C2_SpanBrackets ==
  (/\ Answered
   /\ queried \notin LeafNames
   /\ \E a \in LeafNames : a < queried
   /\ \E b \in LeafNames : queried < b)
  => /\ result.type = "object"
     /\ result.left.type = "array"
     /\ result.right.type = "array"
     /\ LET below == {a \in LeafNames : a < queried}
            above == {b \in LeafNames : queried < b}
        IN /\ result.left.items[1].name \in below
           /\ \A a \in below : a <= result.left.items[1].name
           /\ result.right.items[1].name \in above
           /\ \A b \in above : result.right.items[1].name <= b

\* C3: for a name outside the range of the leaf names the query reads only
\* positions 0..n-1 of the leaves and returns a span with exactly one side:
\* the path of the first leaf as upper side when the name is below every
\* leaf, the path of the last leaf as lower side when it is above every leaf.
C3_OneSidedSpan ==
  (/\ Len(records) >= 1
   /\ pc \in {"ready", "crashed"}
   /\ queried # 0
   /\ \/ \A a \in LeafNames : queried < a
      \/ \A a \in LeafNames : a < queried)
  => /\ pc = "ready"
     /\ ~oob
     /\ result.type = "object"
     /\ (\A a \in LeafNames : queried < a)
          => /\ result.left = JsonNull
             /\ result.right = generatePath(0)
     /\ (\A a \in LeafNames : a < queried)
          => /\ result.right = JsonNull
             /\ result.left = generatePath(Len(leaves_) - 1)

\* C4: constructing a tree from no records completes without reading an
\* element of the empty row, leaves the tree with no leaves and no root
\* digest, and every query on it returns the empty value.
C4_EmptyTree ==
  (Len(records) = 0 /\ pc \in {"ready", "crashed"})
  => /\ pc = "ready"
     /\ ~oob
     /\ leaves_ = <<>>
     /\ rootHash_ = Uninit
     /\ (queried # 0 => result = JsonNull)

\* C5: a span is accepted only if both of its sides are paths of leaves of
\* the tree, the queried name lies strictly between the two leaf names and
\* the two leaves are neighbours in leaf order.
C5_AbsenceNeedsAdjacency ==
  (/\ Answered
   /\ verdict.op # "none"
   /\ verdict.proof.type = "object"
   /\ verdict.ok)
  => \E a, b \in 0..(Len(leaves_) - 1) :
       /\ verdict.proof.left = generatePath(a)
       /\ verdict.proof.right = generatePath(b)
       /\ records[a + 1].name < queried
       /\ queried < records[b + 1].name
       /\ b = a + 1

\* the verification in verdict is of the returned proof, against the leaf's
\* own record or the tree's root digest
GenuineVerification ==
  /\ verdict.proof = result
  /\ verdict.op = "verifySubtree" => verdict.record = records[IndexOf(queried) + 1]
  /\ verdict.op = "verifyRoot" => verdict.root = <<"b64", rootHash_>>

\* C6: for every leaf of a non-empty tree, the query of the leaf's name
\* returns a proof, and verifying that proof against the leaf's own record
\* and against the tree's root digest returns true.
C6_InclusionRoundTrip ==
  (/\ Len(records) >= 1
   /\ pc \in {"ready", "crashed"}
   /\ queried \in LeafNames)
  => /\ pc = "ready"
     /\ result.type = "array"
     /\ (verdict.op # "none" /\ GenuineVerification) => verdict.ok

C6_Witness ==
  /\ Len(records) = MaxRecords
  /\ queried \in LeafNames
  /\ verdict.op = "verifySubtree"
  /\ GenuineVerification
  /\ verdict.ok

\* C7: after construction from a non-empty record list the root digest is
\* the bottom-up fold of the leaf digests: the leaf's own digest for one
\* record, H(H(L0,L1),H(L2,L2)) for three.
C7_RootIsFold ==
  (pc = "ready" /\ Len(records) >= 1)
  => /\ rootHash_ = ReferenceFold(RecordDigests)
     /\ Len(records) = 1 => rootHash_ = records[1].hash
     /\ Len(records) = 3 =>
          rootHash_ = H(H(records[1].hash, records[2].hash),
                        H(records[3].hash, records[3].hash))

C7_Witness ==
  /\ pc = "ready"
  /\ Len(records) = 3
  /\ records[1].hash # records[2].hash
  /\ rootHash_ = H(H(records[1].hash, records[2].hash),
                   H(records[3].hash, records[3].hash))

\* C8: the path of an inclusion proof, the values that follow the leaf's
\* name and digest, has one step per level above the leaves: none for a
\* tree of one leaf, two for a tree of four leaves.
C8_PathLength ==
  (Answered /\ result.type = "array")
  => Len(result.items) - 1 = Levels(Len(leaves_))

\* C9: on a non-empty tree the query returns an inclusion proof exactly
\* when a leaf has the queried name, the proof starting with that leaf's
\* name and digest, and returns a span for every other name.
C9_InclusionIffPresent ==
  (/\ Len(records) >= 1
   /\ pc \in {"ready", "crashed"}
   /\ queried # 0)
  => /\ queried \in LeafNames
          => /\ result.type = "array"
             /\ result.items[1] =
                  [name |-> queried,
                   hash |-> <<"b64", records[IndexOf(queried) + 1].hash>>]
     /\ queried \notin LeafNames => result.type = "object"

\* C9 holds of every query that stays inside the leaves
C9_WithinLeaves == oob \/ C9_InclusionIffPresent

\* C10 as claimed: after construction from two or more records every inner
\* node stores a left and a right child, its digest is the hash of the
\* digests of the two children stored, the last node of a level of odd
\* width is stored as its parent's left and right child, every child's
\* parent is the node built from it, and exactly one node has no parent.
C10_Original ==
  (pc = "ready" /\ Len(records) >= 2)
  => /\ \A x \in Inner :
          /\ nodes[x].leftChild # Null
          /\ nodes[x].rightChild # Null
          /\ nodes[x].hash = H(nodes[nodes[x].leftChild].hash,
                               nodes[nodes[x].rightChild].hash)
          /\ LastOfOddLevel(nodes[x].leftChild)
               => nodes[x].rightChild = nodes[x].leftChild
          /\ nodes[nodes[x].leftChild].parent = x
          /\ nodes[nodes[x].rightChild].parent = x
     /\ Cardinality({x \in NodeIds : nodes[x].parent = Null}) = 1

\* C10 as amended: after construction from two or more records every inner
\* node stores a left child; it stores no right child when its left child
\* is the last node of a level of odd width, and a right child otherwise;
\* its digest is the hash of the left child's digest and the digest of the
\* right child stored, or of the left child again when none is stored;
\* every child's parent is the node built from it, and exactly one node has
\* no parent.
C10_ChildLinks ==
  (pc = "ready" /\ Len(records) >= 2)
  => /\ \A x \in Inner :
          LET l == nodes[x].leftChild
              r == nodes[x].rightChild
          IN /\ l # Null
             /\ (r = Null) <=> LastOfOddLevel(l)
             /\ r # Null => r # l /\ nodes[r].parent = x
             /\ nodes[x].hash =
                  H(nodes[l].hash, nodes[IF r = Null THEN l ELSE r].hash)
             /\ nodes[l].parent = x
     /\ \A y \in NodeIds :
          nodes[y].parent # Null =>
            y \in {nodes[nodes[y].parent].leftChild,
                   nodes[nodes[y].parent].rightChild}
     /\ Cardinality({x \in NodeIds : nodes[x].parent = Null}) = 1

C10_Witness ==
  /\ pc = "ready"
  /\ Len(records) = 3
  /\ \E x \in Inner :
       /\ nodes[x].rightChild = Null
       /\ nodes[x].leftChild = leaves_[3]
       /\ nodes[x].hash = H(records[3].hash, records[3].hash)
====
